---- MODULE Spec2Model ----
(***************************************************************************)
(* A model of the inner-product proof of src/src/inner_product_proof.rs:   *)
(* Proof::create (the folding loop) and Proof::verify (transcript replay,  *)
(* coefficient expansion, single multiscalar check).                       *)
(*                                                                         *)
(* Scalars are the field Z_GroupOrder and points are the cyclic group of   *)
(* the same prime order, written by their discrete logarithm to a fixed    *)
(* base point (0 is the identity).  The transcript is a log of the         *)
(* operations made on it, and challenge_scalar() is a random oracle: a     *)
(* function of the log, fixed the first time it is asked.                  *)
(***************************************************************************)
EXTENDS Integers, Sequences, FiniteSets, TLC

\* ---------------------------------------------------------------- bounds
\* Largest length of the vectors handed to create.
MaxN == 4
\* Cap on the number of folding rounds one call to create may run.
MaxRounds == 3

\* ------------------------------------------------- scalars and points
\* Order of the scalar field and of the group (a prime).
GroupOrder == 7

Scalars == 0 .. (GroupOrder - 1)
Points == 0 .. (GroupOrder - 1)
\* Values a challenge may take (a hash output is zero with negligible
\* probability only).
Challenges == 1 .. (GroupOrder - 1)

ScalarAdd(u, v) == (u + v) % GroupOrder
ScalarMul(u, v) == (u * v) % GroupOrder
ScalarNeg(u) == (GroupOrder - u) % GroupOrder

RECURSIVE ScalarPow(_, _)
ScalarPow(u, e) == IF e = 0 THEN 1 ELSE ScalarMul(u, ScalarPow(u, e - 1))

\* Scalar::invert: u^(order - 2); the inverse of zero is zero.
Invert(u) == ScalarPow(u, GroupOrder - 2)

PointAdd(X, Y) == (X + Y) % GroupOrder
PointMul(c, X) == (c * X) % GroupOrder
Identity == 0

Min(u, v) == IF u <= v THEN u ELSE v

\* multiscalar_mult over two iterators: the pairs of a zip, so the longer
\* one is cut at the length of the shorter.
RECURSIVE MultiscalarMultUpTo(_, _, _)
MultiscalarMultUpTo(scalars, points, k) ==
    IF k = 0 THEN Identity
    ELSE PointAdd(MultiscalarMultUpTo(scalars, points, k - 1),
                  PointMul(scalars[k], points[k]))

MultiscalarMult(scalars, points) ==
    MultiscalarMultUpTo(scalars, points, Min(Len(scalars), Len(points)))

\* range_proof::inner_product: the sum of a[i] * b[i]; vectors of different
\* lengths are a fatal error.
InnerProductDefined(u, v) == Len(u) = Len(v)

RECURSIVE InnerProductUpTo(_, _, _)
InnerProductUpTo(u, v, k) ==
    IF k = 0 THEN 0
    ELSE ScalarAdd(InnerProductUpTo(u, v, k - 1), ScalarMul(u[k], v[k]))

InnerProduct(u, v) == InnerProductUpTo(u, v, Min(Len(u), Len(v)))

\* util::exp_iter(y): 1, y, y^2, ... (cut at k elements here).
ExpIter(y, k) == [i \in 1 .. k |-> ScalarPow(y, i - 1)]

\* CompressedRistretto::as_bytes: the canonical encoding of a point, a
\* byte string; distinct points have distinct encodings.
Compress(X) == <<X>>

\* slice.split_at_mut(mid)
SplitLeft(v, mid) == SubSeq(v, 1, mid)
SplitRight(v, mid) == SubSeq(v, mid + 1, Len(v))

Reverse(v) == [i \in 1 .. Len(v) |-> v[Len(v) + 1 - i]]

\* ------------------------------------------------------- the transcript
CommitOp(bytes) == [op |-> "commit", data |-> bytes]
ChallengeOp == [op |-> "challenge", data |-> <<>>]

\* ProofTranscript::commit
TranscriptCommit(log, bytes) == Append(log, CommitOp(bytes))

\* ProofTranscript::challenge_scalar: the values the oracle allows for a
\* transcript in state log.
OracleValues(orc, log) ==
    IF \E e \in orc : e[1] = log
    THEN {e[2] : e \in {f \in orc : f[1] = log}}
    ELSE Challenges

TranscriptChallenge(log) == Append(log, ChallengeOp)

\* ------------------------------------------------------- Proof::create
\* usize::next_power_of_two
RECURSIVE NextPowerOfTwoFrom(_, _)
NextPowerOfTwoFrom(len, pow) ==
    IF pow >= len THEN pow ELSE NextPowerOfTwoFrom(len, 2 * pow)

NextPowerOfTwo(len) == NextPowerOfTwoFrom(len, 1)

\* usize::trailing_zeros of a power of two
RECURSIVE TrailingZeros(_)
TrailingZeros(pow) == IF pow <= 1 THEN 0 ELSE 1 + TrailingZeros(pow \div 2)

\* let lg_n = n.next_power_of_two().trailing_zeros()
LgN(len) == TrailingZeros(NextPowerOfTwo(len))

\* All of the input vectors must have the same length.
LengthsAgree(len, Hs, as, bs) ==
    /\ Len(Hs) = len
    /\ Len(as) = len
    /\ Len(bs) = len

\* H_i = H_i * h_i over the zip of H with Hprime_factors.
Rescale(Hs, factors) ==
    [i \in 1 .. Len(Hs) |->
        IF i <= Len(factors) THEN PointMul(factors[i], Hs[i]) ELSE Hs[i]]

\* A halving that takes one element off instead (none off an empty slice).
HalfMinusOne(len) == IF len = 0 THEN 0 ELSE len - 1

\* n = n / 2
Half(len) == len \div 2

\* L = <a_L, G_R> + <b_R, H_L> + c_L * Q
CrossL(aL, bR, GR, HL, Qp) ==
    MultiscalarMult(aL \o bR \o <<InnerProduct(aL, bR)>>, GR \o HL \o <<Qp>>)

\* R = <a_R, G_L> + <b_L, H_R> + c_R * Q
CrossR(aR, bL, GL, HR, Qp) ==
    MultiscalarMult(aR \o bL \o <<InnerProduct(aR, bL)>>, GL \o HR \o <<Qp>>)

\* verifier.commit(L.compress()); verifier.commit(R.compress())
CommitRound(log, Lp, Rp) ==
    TranscriptCommit(TranscriptCommit(log, Compress(Lp)), Compress(Rp))

\* a_L[i] = a_L[i] * x + x_inv * a_R[i]
FoldA(aL, aR, c, cinv) ==
    [i \in 1 .. Len(aL) |->
        ScalarAdd(ScalarMul(aL[i], c), ScalarMul(cinv, aR[i]))]

\* The fold of b with x and x_inv exchanged.
FoldBSwapped(bL, bR, c, cinv) ==
    [i \in 1 .. Len(bL) |->
        ScalarAdd(ScalarMul(bL[i], c), ScalarMul(cinv, bR[i]))]

\* b_L[i] = b_L[i] * x_inv + x * b_R[i]
FoldB(bL, bR, c, cinv) ==
    [i \in 1 .. Len(bL) |->
        ScalarAdd(ScalarMul(bL[i], cinv), ScalarMul(c, bR[i]))]

\* G_L[i] = x_inv * G_L[i] + x * G_R[i]
FoldG(GL, GR, c, cinv) ==
    [i \in 1 .. Len(GL) |->
        MultiscalarMult(<<cinv, c>>, <<GL[i], GR[i]>>)]

\* H_L[i] = x * H_L[i] + x_inv * H_R[i]
FoldH(HL, HR, c, cinv) ==
    [i \in 1 .. Len(HL) |->
        MultiscalarMult(<<c, cinv>>, <<HL[i], HR[i]>>)]

\* ------------------------------------------------------- Proof::verify
\* let n = 1 << lg_n
RECURSIVE ShiftLeftOne(_)
ShiftLeftOne(lg) == IF lg = 0 THEN 1 ELSE 2 * ShiftLeftOne(lg - 1)

\* A replay that commits R before L.
ReplayCommitRoundRFirst(log, Lp, Rp) ==
    TranscriptCommit(TranscriptCommit(log, Compress(Rp)), Compress(Lp))

\* verify: verifier.commit(L.compress()); verifier.commit(R.compress())
ReplayCommitRound(log, Lp, Rp) ==
    TranscriptCommit(TranscriptCommit(log, Compress(Lp)), Compress(Rp))

\* The rounds replayed: the zip of L_vec with R_vec.
ReplayRounds(pf) == Min(Len(pf.L_vec), Len(pf.R_vec))

\* scalar::batch_invert: every element replaced by its inverse ...
BatchInverses(ch) == [j \in 1 .. Len(ch) |-> Invert(ch[j])]

\* ... and the product of all the inverses returned.
RECURSIVE AllInvUpTo(_, _)
AllInvUpTo(ch, k) ==
    IF k = 0 THEN 1 ELSE ScalarMul(AllInvUpTo(ch, k - 1), Invert(ch[k]))

AllInv(ch) == AllInvUpTo(ch, Len(ch))

\* The challenges left as they are, not squared.
ChallengesNotSquared(ch) == ch

\* *x = x * x for every challenge
ChallengesSq(ch) == [j \in 1 .. Len(ch) |-> ScalarMul(ch[j], ch[j])]

\* j-th bit of i
Bit(i, j) == (i \div ShiftLeftOne(j)) % 2

\* Bit j reading the j-th challenge: the first challenge on the lowest bit.
ChallengeIndexForward(lg, j) == j

\* The index into challenges_sq read for bit j: (lg_n - 1) - j.
ChallengeIndex(lg, j) == (lg - 1) - j

\* The loop over i and j reads challenges_sq only inside its bounds.
ExpansionDefined(lg, chsq) ==
    \A i \in 0 .. (ShiftLeftOne(lg) - 1) : \A j \in 0 .. (lg - 1) :
        Bit(i, j) = 1 =>
            (ChallengeIndex(lg, j) >= 0 /\ ChallengeIndex(lg, j) < Len(chsq))

\* s_i after the bits below j have been read.
RECURSIVE ExpandBits(_, _, _, _, _)
ExpandBits(i, lg, allinv, chsq, j) ==
    IF j = 0 THEN allinv
    ELSE LET acc == ExpandBits(i, lg, allinv, chsq, j - 1)
         IN  IF Bit(i, j - 1) = 1
             THEN ScalarMul(acc, chsq[ChallengeIndex(lg, j - 1) + 1])
             ELSE acc

\* The vector s: s[i + 1] is s_i.
Expand(lg, allinv, chsq) ==
    [k \in 1 .. ShiftLeftOne(lg) |-> ExpandBits(k - 1, lg, allinv, chsq, lg)]

\* a_times_s
ATimesS(pa, sv) == [k \in 1 .. Len(sv) |-> ScalarMul(pa, sv[k])]

\* h_times_b_div_s: the zip of Hprime_factors with s reversed.
HTimesBDivS(pb, sv, factors) ==
    [k \in 1 .. Min(Len(factors), Len(sv)) |->
        ScalarMul(ScalarMul(pb, Reverse(sv)[k]), factors[k])]

\* The squares without the sign.
NegXSqNotNegated(chsq) == chsq

\* neg_x_sq
NegXSq(chsq) == [j \in 1 .. Len(chsq) |-> ScalarNeg(chsq[j])]

\* neg_x_inv_sq
NegXInvSq(invs) ==
    [j \in 1 .. Len(invs) |-> ScalarNeg(ScalarMul(invs[j], invs[j]))]

\* expect_P: one multiscalar multiplication over the chained iterators.
ExpectP(pf, ch, sv, factors, Qp, Gs, Hs) ==
    MultiscalarMult(
        <<ScalarMul(pf.a, pf.b)>> \o ATimesS(pf.a, sv)
            \o HTimesBDivS(pf.b, sv, factors)
            \o NegXSq(ChallengesSq(ch)) \o NegXInvSq(BatchInverses(ch)),
        <<Qp>> \o Gs \o Hs \o pf.L_vec \o pf.R_vec)

\* A comparison that always succeeds.
VerdictAlwaysOk(expect, commitment) == "Ok"

\* if expect_P == *P { Ok(()) } else { Err(()) }
Verdict(expect, commitment) == IF expect = commitment THEN "Ok" ELSE "Err"

\* ---------------------------------------------------------------- state
VARIABLES
    Q, Hprime_factors, G_vec, H_vec, a_vec, b_vec,  \* the caller's inputs
    P,              \* the commitment the caller computes for verify
    pc,             \* where create is
    G, H, a, b, n,  \* create: the active slices and their length
    L_vec, R_vec,   \* create: the cross terms pushed so far
    xs,             \* create: the challenges x drawn, one per round
    transcript,     \* the prover's transcript
    proof,          \* the Proof create returned
    vpc,            \* where verify is
    self,           \* the Proof verify is called on
    vP,             \* the P verify is called with
    vtranscript,    \* the verifier's transcript
    challenges,     \* verify: the challenges replayed so far
    s,              \* verify: the expansion coefficients
    expect_P,       \* verify: the recomputed point
    result,         \* what verify returned
    oracle          \* the challenges fixed so far, by transcript state

inputs == <<Q, Hprime_factors, G_vec, H_vec, a_vec, b_vec, P>>
cvars == <<pc, G, H, a, b, n, L_vec, R_vec, xs, transcript, proof>>
vvars == <<vpc, self, vP, vtranscript, challenges, s, expect_P, result>>
vars == <<inputs, cvars, vvars, oracle>>

\* ------------------------------------------------------------- inputs
\* Scalar vectors: start, step.
ScalarSeeds == {<<1, 2>>, <<5, 3>>}
Ramp(seed, len) ==
    [i \in 1 .. len |-> (seed[1] + (i - 1) * seed[2]) % GroupOrder]

\* Generator vectors: first point, ratio; no element is the identity.
GeneratorSeeds == {<<6, 3>>, <<2, 5>>}
Generators(seed, len) ==
    [i \in 1 .. len |-> PointMul(ScalarPow(seed[2], i - 1), seed[1])]

\* The seeds of H_vec.
BlindingSeeds == {<<2, 5>>}

QPoints == {1, 3}
\* Hprime_factors is exp_iter(y), longer than any input vector.
YValues == {1, 3}
\* Which of H_vec, a_vec, b_vec is one longer than G_vec, if any.
Mismatches == {"none", "H", "a", "b"}
\* What is added to a proof element to corrupt it.
TamperDeltas == {1, 3}

Extra(mm, which) == IF mm = which THEN 1 ELSE 0

\* tests::test_helper_create: P = <a,G> + <b o y^n, H> + <a,b> Q
Commitment(as, bs, Gs, Hs, Qp, factors) ==
    MultiscalarMult(
        as \o [i \in 1 .. Min(Len(bs), Len(factors)) |->
                  ScalarMul(bs[i], factors[i])]
           \o <<InnerProduct(as, bs)>>,
        Gs \o Hs \o <<Qp>>)

NoProof == [L_vec |-> <<>>, R_vec |-> <<>>, a |-> 0, b |-> 0]

Init ==
    /\ \E len \in 0 .. MaxN, mm \in Mismatches,
          sa \in ScalarSeeds, sb \in ScalarSeeds,
          sg \in GeneratorSeeds, sh \in BlindingSeeds :
          /\ G_vec = Generators(sg, len)
          /\ H_vec = Generators(sh, len + Extra(mm, "H"))
          /\ a_vec = Ramp(sa, len + Extra(mm, "a"))
          /\ b_vec = Ramp(sb, len + Extra(mm, "b"))
    /\ Q \in QPoints
    /\ \E y \in YValues : Hprime_factors = ExpIter(y, MaxN + 2)
    /\ P = Commitment(a_vec, b_vec, G_vec, H_vec, Q, Hprime_factors)
    /\ pc = "start"
    /\ G = G_vec /\ H = H_vec /\ a = a_vec /\ b = b_vec
    /\ n = Len(G_vec)
    /\ L_vec = <<>> /\ R_vec = <<>> /\ xs = <<>>
    /\ transcript = <<>>
    /\ proof = NoProof
    /\ vpc = "idle"
    /\ self = NoProof
    /\ vP = Identity
    /\ vtranscript = <<>>
    /\ challenges = <<>>
    /\ s = <<>>
    /\ expect_P = Identity
    /\ result = "none"
    /\ oracle = {}

\* ------------------------------------------------------ create: actions
\* Lines 60-76: the length assertions, then the rescaling of H.
CreateStart ==
    /\ pc = "start"
    /\ IF LengthsAgree(n, H, a, b)
       THEN /\ H' = Rescale(H, Hprime_factors)
            /\ pc' = "loop"
       ELSE /\ pc' = "panic"
            /\ H' = H
    /\ UNCHANGED <<inputs, G, a, b, n, L_vec, R_vec, xs, transcript, proof,
                   vvars, oracle>>

\* Lines 78-99: one more round: halve n, split, compute and push L and R.
RoundBegin ==
    /\ pc = "loop"
    /\ n # 1
    /\ Len(L_vec) < MaxRounds
    /\ LET half == Half(n)
           a_L == SplitLeft(a, half)
           a_R == SplitRight(a, half)
           b_L == SplitLeft(b, half)
           b_R == SplitRight(b, half)
           G_L == SplitLeft(G, half)
           G_R == SplitRight(G, half)
           H_L == SplitLeft(H, half)
           H_R == SplitRight(H, half)
       IN  /\ n' = half
           /\ IF InnerProductDefined(a_L, b_R) /\ InnerProductDefined(a_R, b_L)
              THEN /\ L_vec' = Append(L_vec, CrossL(a_L, b_R, G_R, H_L, Q))
                   /\ R_vec' = Append(R_vec, CrossR(a_R, b_L, G_L, H_R, Q))
                   /\ pc' = "commit"
              ELSE /\ pc' = "panic"
                   /\ UNCHANGED <<L_vec, R_vec>>
    /\ UNCHANGED <<inputs, G, H, a, b, xs, transcript, proof, vvars, oracle>>

\* Lines 101-102: commit L, then R.
CommitLR ==
    /\ pc = "commit"
    /\ transcript' =
          CommitRound(transcript, L_vec[Len(L_vec)], R_vec[Len(R_vec)])
    /\ pc' = "challenge"
    /\ UNCHANGED <<inputs, G, H, a, b, n, L_vec, R_vec, xs, proof, vvars,
                   oracle>>

\* Lines 104-105: draw the round's challenge x.
DrawChallenge ==
    /\ pc = "challenge"
    /\ \E c \in OracleValues(oracle, transcript) :
          /\ xs' = Append(xs, c)
          /\ oracle' = oracle \cup {<<transcript, c>>}
    /\ transcript' = TranscriptChallenge(transcript)
    /\ pc' = "fold"
    /\ UNCHANGED <<inputs, G, H, a, b, n, L_vec, R_vec, proof, vvars>>

\* Lines 107-117: fold the halves with x and x_inv; keep the left halves.
Fold ==
    /\ pc = "fold"
    /\ LET c == xs[Len(xs)]
           cinv == Invert(c)
       IN  /\ a' = FoldA(SplitLeft(a, n), SplitRight(a, n), c, cinv)
           /\ b' = FoldB(SplitLeft(b, n), SplitRight(b, n), c, cinv)
           /\ G' = FoldG(SplitLeft(G, n), SplitRight(G, n), c, cinv)
           /\ H' = FoldH(SplitLeft(H, n), SplitRight(H, n), c, cinv)
    /\ pc' = "loop"
    /\ UNCHANGED <<inputs, n, L_vec, R_vec, xs, transcript, proof, vvars,
                   oracle>>

\* Lines 120-125: the loop has ended; return the Proof.
CreateReturn ==
    /\ pc = "loop"
    /\ n = 1
    /\ proof' = [L_vec |-> L_vec, R_vec |-> R_vec, a |-> a[1], b |-> b[1]]
    /\ pc' = "done"
    /\ UNCHANGED <<inputs, G, H, a, b, n, L_vec, R_vec, xs, transcript,
                   vvars, oracle>>

\* ------------------------------------------------------ verify: actions
\* pf with element j of L_vec moved by d.
TamperL(pf, j, d) ==
    [pf EXCEPT !.L_vec = [@ EXCEPT ![j] = PointAdd(@, d)]]

TamperR(pf, j, d) ==
    [pf EXCEPT !.R_vec = [@ EXCEPT ![j] = PointAdd(@, d)]]

TamperA(pf, d) == [pf EXCEPT !.a = ScalarAdd(@, d)]

TamperB(pf, d) == [pf EXCEPT !.b = ScalarAdd(@, d)]

DropLastL(pf) ==
    [pf EXCEPT !.L_vec = SubSeq(@, 1, Len(@) - 1)]

DropLastR(pf) ==
    [pf EXCEPT !.R_vec = SubSeq(@, 1, Len(@) - 1)]

\* The Proof values verify is called on: the one create returned, that one
\* with a single element changed, and that one with L_vec or R_vec one
\* element short.
ProofsToVerify(pf) ==
    {pf}
    \cup {TamperL(pf, j, d) : j \in 1 .. Len(pf.L_vec), d \in TamperDeltas}
    \cup {TamperR(pf, j, d) : j \in 1 .. Len(pf.R_vec), d \in TamperDeltas}
    \cup {TamperA(pf, d) : d \in TamperDeltas}
    \cup {TamperB(pf, d) : d \in TamperDeltas}
    \cup (IF Len(pf.L_vec) > 0 THEN {DropLastL(pf), DropLastR(pf)} ELSE {})

\* The call of verify: the test's, on a transcript initialised as the
\* prover's was, with the commitment P or the wrong commitment P + G_0.
VerifyCall ==
    /\ pc = "done"
    /\ vpc = "idle"
    /\ \/ /\ self' \in ProofsToVerify(proof)
          /\ vP' = P
       \/ /\ self' = proof
          /\ vP' = PointAdd(P, G_vec[1])
    /\ vtranscript' = <<>>
    /\ challenges' = <<>>
    /\ vpc' = "replay"
    /\ UNCHANGED <<inputs, cvars, s, expect_P, result, oracle>>

\* Lines 148-150: the next pair of the zip: commit L, then R.
ReplayCommit ==
    /\ vpc = "replay"
    /\ Len(challenges) < ReplayRounds(self)
    /\ LET j == Len(challenges) + 1
       IN  vtranscript' =
              ReplayCommitRound(vtranscript, self.L_vec[j], self.R_vec[j])
    /\ vpc' = "challenge"
    /\ UNCHANGED <<inputs, cvars, self, vP, challenges, s, expect_P, result,
                   oracle>>

\* Line 152: push the challenge the transcript gives.
ReplayChallenge ==
    /\ vpc = "challenge"
    /\ \E c \in OracleValues(oracle, vtranscript) :
          /\ challenges' = Append(challenges, c)
          /\ oracle' = oracle \cup {<<vtranscript, c>>}
    /\ vtranscript' = TranscriptChallenge(vtranscript)
    /\ vpc' = "replay"
    /\ UNCHANGED <<inputs, cvars, self, vP, s, expect_P, result>>

\* Lines 142-143 and 155-178: invert, square, and expand into s; the read
\* of challenges_sq outside its bounds is a panic.
ExpandS ==
    /\ vpc = "replay"
    /\ Len(challenges) = ReplayRounds(self)
    /\ LET lg_n == Len(self.L_vec)
           challenges_sq == ChallengesSq(challenges)
       IN  IF ExpansionDefined(lg_n, challenges_sq)
           THEN /\ s' = Expand(lg_n, AllInv(challenges), challenges_sq)
                /\ vpc' = "check"
           ELSE /\ vpc' = "panic"
                /\ s' = s
    /\ UNCHANGED <<inputs, cvars, self, vP, vtranscript, challenges, expect_P,
                   result, oracle>>

\* Lines 180-211: the multiscalar multiplication and the comparison.
Check ==
    /\ vpc = "check"
    /\ expect_P' =
          ExpectP(self, challenges, s, Hprime_factors, Q, G_vec, H_vec)
    /\ result' = Verdict(expect_P', vP)
    /\ vpc' = "done"
    /\ UNCHANGED <<inputs, cvars, self, vP, vtranscript, challenges, s,
                   oracle>>

Next ==
    \/ CreateStart
    \/ RoundBegin
    \/ CommitLR
    \/ DrawChallenge
    \/ Fold
    \/ CreateReturn
    \/ VerifyCall
    \/ ReplayCommit
    \/ ReplayChallenge
    \/ ExpandS
    \/ Check

Spec == Init /\ [][Next]_vars

\* ------------------------------------------- verify on arbitrary challenges
\* Largest number of rounds of a proof handed to verify on its own.
MaxLgN == 3

\* The sequences over S of length len.
SeqsOfLen(S, len) == [1 .. len -> S]

\* The transcript after k rounds of the proof pf: commit(L), commit(R),
\* challenge, round after round.
RECURSIVE RoundsLog(_, _, _)
RoundsLog(Ls, Rs, k) ==
    IF k = 0 THEN <<>>
    ELSE RoundsLog(Ls, Rs, k - 1)
            \o <<CommitOp(Compress(Ls[k])), CommitOp(Compress(Rs[k])),
                 ChallengeOp>>

\* The transcript of round k when its challenge is asked for.
LogAtChallenge(Ls, Rs, k) ==
    RoundsLog(Ls, Rs, k - 1)
        \o <<CommitOp(Compress(Ls[k])), CommitOp(Compress(Rs[k]))>>

\* verify has replayed a proof of lg rounds, and the transcript has given
\* it the challenges ch; nothing else has run.
InitExpand ==
    /\ \E lg \in 0 .. MaxLgN :
          /\ challenges \in SeqsOfLen(Challenges, lg)
          /\ self = [L_vec |-> [j \in 1 .. lg |-> j % GroupOrder],
                     R_vec |-> [j \in 1 .. lg |-> (2 * j) % GroupOrder],
                     a |-> 2, b |-> 3]
          /\ G_vec = Generators(<<6, 3>>, ShiftLeftOne(lg))
          /\ H_vec = Generators(<<2, 5>>, ShiftLeftOne(lg))
          /\ Hprime_factors = ExpIter(3, ShiftLeftOne(lg))
    /\ vtranscript = RoundsLog(self.L_vec, self.R_vec, Len(challenges))
    /\ oracle = {<<LogAtChallenge(self.L_vec, self.R_vec, k), challenges[k]>> :
                    k \in 1 .. Len(challenges)}
    /\ Q = 1
    /\ a_vec = <<>> /\ b_vec = <<>>
    /\ P = Identity
    /\ pc = "none"
    /\ G = <<>> /\ H = <<>> /\ a = <<>> /\ b = <<>>
    /\ n = 0
    /\ L_vec = <<>> /\ R_vec = <<>> /\ xs = <<>>
    /\ transcript = <<>>
    /\ proof = NoProof
    /\ vpc = "replay"
    /\ vP = Identity
    /\ s = <<>>
    /\ expect_P = Identity
    /\ result = "none"

NextExpand ==
    \/ ExpandS
    \/ Check

SpecExpand == InitExpand /\ [][NextExpand]_vars

\* ------------------------------------------------------------ properties
IsPowerOfTwo(len) == len >= 1 /\ NextPowerOfTwo(len) = len

InputLengthsAgree ==
    /\ Len(H_vec) = Len(G_vec)
    /\ Len(a_vec) = Len(G_vec)
    /\ Len(b_vec) = Len(G_vec)

RECURSIVE PointSumUpTo(_, _)
PointSumUpTo(terms, k) ==
    IF k = 0 THEN Identity ELSE PointAdd(PointSumUpTo(terms, k - 1), terms[k])

PointSum(terms) == PointSumUpTo(terms, Len(terms))

\* The proof under verification has the shape of the one create returned.
SameShape(pf, qf) ==
    /\ Len(pf.L_vec) = Len(qf.L_vec)
    /\ Len(pf.R_vec) = Len(qf.R_vec)

VerifyReturned == vpc = "done"

\* C1. Completeness: for a power-of-two length and the commitment
\* P = <a,G> + <b o factors,H> + <a,b> Q, verify on the proof create
\* returned, replayed on a transcript initialised as create's was, returns Ok.
C1_Completeness ==
    (/\ VerifyReturned
     /\ self = proof
     /\ vP = Commitment(a_vec, b_vec, G_vec, H_vec, Q, Hprime_factors))
        => result = "Ok"

C1_Witness ==
    /\ VerifyReturned
    /\ self = proof
    /\ vP = P
    /\ Len(G_vec) = 4
    /\ xs[1] # xs[2]
    /\ result = "Ok"

\* The point the claim C2 names, term by term, for a proof of lg_n rounds
\* against generator vectors of length n = 2^lg_n.
ClaimedExpectP ==
    LET len == Len(s)
    IN  PointSum(
            <<PointMul(ScalarMul(self.a, self.b), Q)>>
            \o [i \in 1 .. len |->
                   PointMul(ScalarMul(self.a, s[i]), G_vec[i])]
            \o [i \in 1 .. len |->
                   PointMul(ScalarMul(ScalarMul(self.b, s[len + 1 - i]),
                                      Hprime_factors[i]), H_vec[i])]
            \o [j \in 1 .. Len(challenges) |->
                   PointMul(ScalarNeg(ScalarMul(challenges[j], challenges[j])),
                            self.L_vec[j])]
            \o [j \in 1 .. Len(challenges) |->
                   PointMul(ScalarNeg(ScalarMul(Invert(challenges[j]),
                                                Invert(challenges[j]))),
                            self.R_vec[j])])

\* C2. verify returns Ok exactly when the recomputed point, the combination
\* of Q, G_vec, H_vec, L_vec, R_vec with the coefficients a*b, a*s_i,
\* b*s_{n-1-i}*h_i, -x_j^2, -x_j^-2, equals the P it was given, and Err
\* otherwise; on the honest proof with P replaced by P + G_0 it returns Err.
C2_OkIffExpectP ==
    VerifyReturned =>
        /\ SameShape(self, proof) =>
              (result = "Ok" <=> ClaimedExpectP = vP)
        /\ result \in {"Ok", "Err"}
        /\ (self = proof /\ vP = PointAdd(P, G_vec[1])) => result = "Err"

C2_Witness ==
    /\ VerifyReturned
    /\ self = proof
    /\ vP = PointAdd(P, G_vec[1])
    /\ Len(G_vec) = 4
    /\ result = "Err"

\* The proof verified is the returned one with one thing changed.
OnlyADiffers == self # proof /\ self = [proof EXCEPT !.a = self.a]
OnlyBDiffers == self # proof /\ self = [proof EXCEPT !.b = self.b]
OneLOrRDiffers ==
    /\ self # proof
    /\ SameShape(self, proof)
    /\ self.a = proof.a
    /\ self.b = proof.b
    /\ Cardinality({j \in 1 .. Len(proof.L_vec) :
                       self.L_vec[j] # proof.L_vec[j]})
        + Cardinality({j \in 1 .. Len(proof.R_vec) :
                          self.R_vec[j] # proof.R_vec[j]}) = 1

\* The returned proof verifies against P under the prover's challenges.
HonestProofVerifies ==
    ExpectP(proof, xs,
            Expand(Len(proof.L_vec), AllInv(xs), ChallengesSq(xs)),
            Hprime_factors, Q, G_vec, H_vec) = P

\* b*Q + sum s_i * G_i, what a multiplies in expect_P.
CofactorOfA ==
    PointSum(<<PointMul(self.b, Q)>>
             \o [i \in 1 .. Len(s) |-> PointMul(s[i], G_vec[i])])

\* a*Q + sum s_{n-1-i} * h_i * H_i, what b multiplies in expect_P.
CofactorOfB ==
    PointSum(<<PointMul(self.a, Q)>>
             \o [i \in 1 .. Len(s) |->
                    PointMul(ScalarMul(s[Len(s) + 1 - i], Hprime_factors[i]),
                             H_vec[i])])

\* C3, as stated: a proof that verifies against P, with one element of
\* L_vec or of R_vec, or the scalar a, or the scalar b changed, is rejected.
C3_AnyCorruptionRejected ==
    (/\ VerifyReturned
     /\ vP = P
     /\ HonestProofVerifies
     /\ (OnlyADiffers \/ OnlyBDiffers \/ OneLOrRDiffers))
        => result = "Err"

\* C3, amended: changing a is rejected exactly when b*Q + sum s_i*G_i is
\* not the identity, changing b exactly when a*Q + sum s_{n-1-i}*h_i*H_i
\* is not the identity, and changing one element of L_vec or R_vec is
\* rejected whenever the replayed challenges are the prover's.
C3_CorruptionRejectedUnlessCancelled ==
    (/\ VerifyReturned
     /\ vP = P
     /\ HonestProofVerifies)
        => /\ OnlyADiffers => (result = "Err" <=> CofactorOfA # Identity)
           /\ OnlyBDiffers => (result = "Err" <=> CofactorOfB # Identity)
           /\ (OneLOrRDiffers /\ challenges = xs) => result = "Err"

C3_Witness ==
    /\ VerifyReturned
    /\ vP = P
    /\ HonestProofVerifies
    /\ OnlyADiffers
    /\ Len(G_vec) = 2
    /\ CofactorOfA # Identity
    /\ result = "Err"

\* C4, as stated: for every length n >= 1 create returns a proof of
\* ceil(log2 n) rounds.
C4_CeilLog2Rounds ==
    (/\ pc \in {"done", "panic"}
     /\ InputLengthsAgree
     /\ Len(G_vec) >= 1)
        => /\ pc = "done"
           /\ Len(proof.L_vec) = LgN(Len(G_vec))
           /\ Len(proof.R_vec) = LgN(Len(G_vec))

\* C4, amended: for every power-of-two length n create runs exactly
\* log2 n rounds, each pushing one element on L_vec and one on R_vec, and
\* returns a proof with |L_vec| = |R_vec| = log2 n; verify's n = 2^|L_vec|
\* is then the prover's n.
C4_Log2RoundsForPowersOfTwo ==
    /\ Len(L_vec) = Len(R_vec)
    /\ Len(xs) = Len(L_vec) - (IF pc \in {"commit", "challenge"} THEN 1 ELSE 0)
    /\ (InputLengthsAgree /\ IsPowerOfTwo(Len(G_vec))) =>
          /\ pc # "panic"
          /\ pc = "done" =>
                /\ Len(proof.L_vec) = LgN(Len(G_vec))
                /\ Len(proof.R_vec) = LgN(Len(G_vec))
                /\ ShiftLeftOne(Len(proof.L_vec)) = Len(G_vec)
                /\ Len(xs) = LgN(Len(G_vec))
          /\ (vpc \in {"check", "done"} /\ SameShape(self, proof)) =>
                Len(s) = Len(G_vec)

C4_Witness ==
    /\ pc = "done"
    /\ Len(G_vec) = 4
    /\ Len(proof.L_vec) = 2
    /\ vpc = "check"
    /\ Len(s) = 4

\* C5. Inputs whose lengths differ, or whose common length is not a power
\* of two, make create fail before any round and before any commit or
\* challenge; it never returns a proof for them.
C5_RejectedUpFront ==
    (~InputLengthsAgree \/ ~IsPowerOfTwo(Len(G_vec)))
        => /\ L_vec = <<>>
           /\ R_vec = <<>>
           /\ transcript = <<>>
           /\ pc \notin {"commit", "challenge", "fold", "done"}

\* C6. verify never panics: on every Proof value, those with
\* |L_vec| # |R_vec| or 2^|L_vec| # |G_vec| included, it returns Ok or Err,
\* and Err on the malformed ones.
C6_VerifyNeverPanics ==
    /\ vpc # "panic"
    /\ (VerifyReturned /\ ~SameShape(self, proof)) => result = "Err"

\* C7. create terminates: every round strictly decreases the active
\* length, until it is 1.
C7_LengthDecreasesEachRound ==
    [][RoundBegin => n' < n]_vars

\* C8. Transcript order and replay: create's transcript is, round after
\* round, commit(L), commit(R), challenge, and it folds only once the
\* round's challenge is drawn; verify's is the same over the proof's
\* rounds; so on the returned proof verify's transcript and challenges are
\* create's.
C8_TranscriptReplay ==
    /\ pc \in {"loop", "fold", "done"} =>
          /\ transcript = RoundsLog(L_vec, R_vec, Len(L_vec))
          /\ Len(xs) = Len(L_vec)
    /\ pc = "commit" =>
          /\ transcript = RoundsLog(L_vec, R_vec, Len(L_vec) - 1)
          /\ Len(a) = 2 * n
    /\ pc = "challenge" =>
          /\ transcript = LogAtChallenge(L_vec, R_vec, Len(L_vec))
          /\ Len(xs) = Len(L_vec) - 1
          /\ Len(a) = 2 * n
    /\ pc = "fold" => Len(a) = 2 * n
    /\ pc = "loop" => Len(a) = n
    /\ vpc = "challenge" =>
          vtranscript =
             LogAtChallenge(self.L_vec, self.R_vec, Len(challenges) + 1)
    /\ vpc \in {"replay", "check", "done", "panic"} =>
          vtranscript = RoundsLog(self.L_vec, self.R_vec, Len(challenges))
    /\ (vpc \in {"check", "done"} /\ self = proof) =>
          /\ vtranscript = transcript
          /\ challenges = xs

C8_Witness ==
    /\ VerifyReturned
    /\ self = proof
    /\ Len(challenges) = 2
    /\ challenges[1] # challenges[2]
    /\ challenges = xs
    /\ L_vec[1] # R_vec[1]

\* The generator left when create's fold of G runs over all the rounds.
RECURSIVE FoldAllG(_, _, _)
FoldAllG(Gs, ch, k) ==
    IF k > Len(ch) THEN Gs
    ELSE LET half == Half(Len(Gs))
         IN  FoldAllG(FoldG(SplitLeft(Gs, half), SplitRight(Gs, half),
                            ch[k], Invert(ch[k])), ch, k + 1)

RECURSIVE FoldAllH(_, _, _)
FoldAllH(Hs, ch, k) ==
    IF k > Len(ch) THEN Hs
    ELSE LET half == Half(Len(Hs))
         IN  FoldAllH(FoldH(SplitLeft(Hs, half), SplitRight(Hs, half),
                            ch[k], Invert(ch[k])), ch, k + 1)

\* The generator vector in which only index i (from 0) is the base point.
UnitVector(i, len) == [k \in 1 .. len |-> IF k = i + 1 THEN 1 ELSE 0]

\* C9. The expansion agrees with the folding: s_i is the coefficient of
\* the original G_i in the generator left after all the rounds of create's
\* fold of G, and s_{n-1-i} that of the original H'_i after the fold of H.
C9_ExpansionMatchesFolding ==
    vpc = "check" =>
        \A i \in 0 .. (Len(s) - 1) :
            /\ s[i + 1] = FoldAllG(UnitVector(i, Len(s)), challenges, 1)[1]
            /\ s[Len(s) - i] = FoldAllH(UnitVector(i, Len(s)), challenges, 1)[1]

C9_Witness ==
    /\ vpc = "check"
    /\ Len(challenges) = 3
    /\ Len(s) = 8
    /\ Cardinality({ScalarMul(challenges[j], challenges[j]) : j \in 1 .. 3}) = 3
    /\ s[2] # s[5]

\* C10. Symmetry: with nonzero challenges s_i * s_{n-1-i} = 1 for every i,
\* so s reversed is the sequence of the inverses 1/s_i.
C10_Symmetry ==
    vpc = "check" =>
        /\ Len(s) = ShiftLeftOne(Len(self.L_vec))
        /\ \A i \in 0 .. (Len(s) - 1) :
              /\ ScalarMul(s[i + 1], s[Len(s) - i]) = 1
              /\ Reverse(s)[i + 1] = Invert(s[i + 1])

C10_Witness ==
    /\ vpc = "check"
    /\ Len(s) = 8
    /\ s[1] # 1
    /\ s[1] # s[8]

====
